---------------------------- MODULE Spec2Model ----------------------------
(***************************************************************************)
(* WakaTime MCP server: the API client (src/src/wakatime_client.py) and    *)
(* the tool layer (src/src/server.py).                                     *)
(*                                                                         *)
(* Conventions of the model                                                *)
(*   - Optional values (Python None / a value) are sequences of length 0   *)
(*     or 1: None is <<>>, a present value x is <<x>>.                     *)
(*   - A Python dict is a function on its keys (a record); dict.get is Get.*)
(*   - A JSON value whose type the code does not control is tagged:        *)
(*     [t |-> "invalid"] (the text is not JSON), [t |-> "null"],           *)
(*     [t |-> "list", l |-> <<...>>], [t |-> "dict", d |-> [...]].         *)
(*   - A call that may raise returns Ok(v) or Raise(type, msg).            *)
(*   - Seconds are integers.  Percentages are integers counted in          *)
(*     hundredths of a percent (2604 is 26.04 %), the precision upstream   *)
(*     sends; round(x, 1) therefore yields a multiple of 10.               *)
(*   - Calendar dates are day numbers of January 2024.                     *)
(***************************************************************************)
EXTENDS Integers, Sequences, FiniteSets, TLC

VARIABLES
    env_key,      \* os.environ.get("WAKATIME_API_KEY"): <<>> unset, else <<string>>
    _client,      \* server.py module global: <<>> (None) or <<client object>>
    constructed,  \* number of WakaTimeClient objects successfully constructed
    requests,     \* number of HTTP requests handed to the upstream so far
    inv,          \* the tool invocations: slot -> activation record
    procs,        \* the invocation slots this run may use (its concurrency)
    seconds,      \* argument of the format_seconds unit harness
    formatted     \* format_seconds(seconds)

vars == <<env_key, _client, constructed, requests, inv, procs, seconds, formatted>>

----------------------------------------------------------------------------
(* Bounds of the model *)

\* Tool invocations that may be in progress at once in the concurrent runs.
MaxSlots == 3

\* Largest calendar day a caller passes as start_date / end_date.
MaxDay == 3
\* date.today() of the run.
Today == 2
\* Most daily summaries in one upstream summaries response.
MaxSummaries == 2
\* Cap on the number of upstream requests of one run.
MaxRequests == 2
\* Largest argument given to format_seconds by the unit harness.
MaxSeconds == 180000
\* Number of distinct breakdown names the upstream uses.
MaxNames == 11

----------------------------------------------------------------------------
(* Python values *)

None == <<>>
Some(x) == <<x>>
IsNone(o) == o = <<>>
\* Truthiness of an optional string: None and "" are falsy.
Truthy(o) == o # <<>> /\ o[1] # ""

\* JSON null / a missing string as it appears in a result mapping.
NoneStr == "None"

\* dict.get(k, dflt)
Get(d, k, dflt) == IF k \in DOMAIN d THEN d[k] ELSE dflt

EmptyDict == [k \in {} |-> 0]

Ok(v) == [ok |-> TRUE, v |-> v]
Raise(type, msg) == [ok |-> FALSE, type |-> type, msg |-> msg]

JInvalid == [t |-> "invalid"]
JNull == [t |-> "null"]
JList(l) == [t |-> "list", l |-> l]
JDict(d) == [t |-> "dict", d |-> d]

\* Python's name of a JSON value's type, as AttributeError prints it.
PyType(j) == CASE j.t = "null" -> "NoneType"
               [] j.t = "list" -> "list"
               [] OTHER -> "dict"

\* x.get(...) on a value that is no dict raises AttributeError.
NoGet(j) == Raise("AttributeError", "'" \o PyType(j) \o "' object has no attribute 'get'")

----------------------------------------------------------------------------
(* wakatime_client.py *)

\* Exception classes and their bases (wakatime_client.py:11-32).
WakaTimeError == "WakaTimeError"
WakaTimeAuthError == "WakaTimeAuthError"
WakaTimeRateLimitError == "WakaTimeRateLimitError"
WakaTimeNotReadyError == "WakaTimeNotReadyError"

\* isinstance(e, cls) for the exception types of the model.
IsInstance(type, cls) ==
    \/ type = cls
    \/ cls = WakaTimeError /\ type \in {WakaTimeAuthError, WakaTimeRateLimitError,
                                        WakaTimeNotReadyError}

DefaultBaseUrl == "https://api.wakatime.com/api/v1"

\* A variant of __init__ that tests `api_key is None` in place of `not api_key`.
WakaTimeClient_init_none_only(api_key, environ) ==
    LET key == IF IsNone(api_key) THEN environ ELSE api_key
    IN  IF IsNone(key)
        THEN Raise(WakaTimeAuthError,
                   "WAKATIME_API_KEY environment variable not set. "
                   \o "Get your API key from https://wakatime.com/settings/api-key")
        ELSE Ok([base_url |-> DefaultBaseUrl, timeout |-> 30, api_key |-> key[1]])

\* WakaTimeClient.__init__(api_key): the object, or WakaTimeAuthError.
WakaTimeClient_init(api_key, environ) ==
    LET key == IF IsNone(api_key) THEN environ ELSE api_key
    IN  IF ~Truthy(key)
        THEN Raise(WakaTimeAuthError,
                   "WAKATIME_API_KEY environment variable not set. "
                   \o "Get your API key from https://wakatime.com/settings/api-key")
        ELSE Ok([base_url |-> DefaultBaseUrl, timeout |-> 30, api_key |-> key[1]])

\* response.json()
ResponseJson(response) ==
    IF response.body.json.t = "invalid"
    THEN Raise("JSONDecodeError", "Expecting value: line 1 column 1 (char 0)")
    ELSE Ok(response.body.json)

\* A variant of the 202 branch that never reads the progress from the body.
NotReady_without_percent(response) ==
    Raise(WakaTimeNotReadyError,
          "Stats are still being computed (0% complete). Try again in a few seconds.")

\* The 202 branch of _request (wakatime_client.py:73-79).
NotReady(response) ==
    LET data == ResponseJson(response)
    IN  IF ~data.ok THEN data
        ELSE IF data.v.t # "dict" THEN NoGet(data.v)
        ELSE LET inner == Get(data.v.d, "data", JDict(EmptyDict))
             IN  IF inner.t # "dict" THEN NoGet(inner)
                 ELSE Raise(WakaTimeNotReadyError,
                            "Stats are still being computed ("
                            \o ToString(Get(inner.d, "percent_calculated", 0))
                            \o "% complete). Try again in a few seconds.")

\* The generic >= 400 branch of _request (wakatime_client.py:85-87).
OtherError(response) ==
    LET data == ResponseJson(response)
    IN  IF ~data.ok THEN data
        ELSE IF data.v.t # "dict" THEN NoGet(data.v)
        ELSE Raise(WakaTimeError,
                   "API error (" \o ToString(response.status_code) \o "): "
                   \o Get(data.v.d, "error", response.body.text))

\* A variant of _request without the 429 branch.
_request_without_429(response) ==
    IF response.status_code = 0
    THEN Raise("ConnectError", "All connection attempts failed")
    ELSE IF response.status_code = 401
    THEN Raise(WakaTimeAuthError, "Invalid API key")
    ELSE IF response.status_code = 202
    THEN NotReady(response)
    ELSE IF response.status_code >= 400
    THEN OtherError(response)
    ELSE ResponseJson(response)

\* WakaTimeClient._request, from the response on: the parsed body or the
\* exception raised.  A transport failure (status_code 0 in the model) is
\* httpx raising from client.request.
_request(response) ==
    IF response.status_code = 0
    THEN Raise("ConnectError", "All connection attempts failed")
    ELSE IF response.status_code = 401
    THEN Raise(WakaTimeAuthError, "Invalid API key")
    ELSE IF response.status_code = 202
    THEN NotReady(response)
    ELSE IF response.status_code = 429
    THEN Raise(WakaTimeRateLimitError,
               "Rate limit exceeded. WakaTime allows ~10 requests/second. "
               \o "Please wait a moment before trying again.")
    ELSE IF response.status_code >= 400
    THEN OtherError(response)
    ELSE ResponseJson(response)

\* response.get("data", dflt) of the endpoint methods that unwrap the envelope.
Unwrap(r, dflt) ==
    IF ~r.ok THEN r
    ELSE IF r.v.t # "dict" THEN NoGet(r.v)
    ELSE Ok(Get(r.v.d, "data", dflt))

\* A variant that rounds the minutes to the nearest in place of flooring.
format_seconds_rounding(secs) ==
    IF secs < 60 THEN ToString(secs) \o " secs"
    ELSE LET minutes == (secs + 30) \div 60
         IN  IF minutes < 60 THEN ToString(minutes) \o " mins"
             ELSE LET hours == minutes \div 60
                      remaining_mins == minutes % 60
                  IN  IF hours < 24
                      THEN IF remaining_mins = 0
                           THEN ToString(hours) \o " hrs"
                           ELSE ToString(hours) \o " hrs "
                                \o ToString(remaining_mins) \o " mins"
                      ELSE LET days == hours \div 24
                               remaining_hours == hours % 24
                           IN  IF remaining_hours = 0
                               THEN ToString(days) \o " days"
                               ELSE ToString(days) \o " days "
                                    \o ToString(remaining_hours) \o " hrs"

\* WakaTimeClient.format_seconds
format_seconds(secs) ==
    IF secs < 60 THEN ToString(secs) \o " secs"
    ELSE LET minutes == secs \div 60
         IN  IF minutes < 60 THEN ToString(minutes) \o " mins"
             ELSE LET hours == minutes \div 60
                      remaining_mins == minutes % 60
                  IN  IF hours < 24
                      THEN IF remaining_mins = 0
                           THEN ToString(hours) \o " hrs"
                           ELSE ToString(hours) \o " hrs "
                                \o ToString(remaining_mins) \o " mins"
                      ELSE LET days == hours \div 24
                               remaining_hours == hours % 24
                           IN  IF remaining_hours = 0
                               THEN ToString(days) \o " days"
                               ELSE ToString(days) \o " days "
                                    \o ToString(remaining_hours) \o " hrs"


----------------------------------------------------------------------------
(* Dates (datetime.date) *)

\* date.isoformat() / strftime("%Y-%m-%d") of a day of January 2024.
isoformat(d) == "2024-01-" \o (IF d < 10 THEN "0" ELSE "") \o ToString(d)

\* WakaTimeClient.get_date_string
get_date_string(d) == isoformat(d)

\* date.fromisoformat: the date, or ValueError.
fromisoformat(s) ==
    IF \E d \in 1..31 : isoformat(d) = s
    THEN Ok(CHOOSE d \in 1..31 : isoformat(d) = s)
    ELSE Raise("ValueError", "Invalid isoformat string: '" \o s \o "'")

\* server.parse_date: an optional date from an optional string.
parse_date(date_str) ==
    IF ~Truthy(date_str) THEN None
    ELSE LET r == fromisoformat(date_str[1])
         IN  IF r.ok THEN Some(r.v) ELSE None

\* `x or dflt` for an optional date (a date object is always truthy).
OrElse(o, dflt) == IF IsNone(o) THEN dflt ELSE o[1]

----------------------------------------------------------------------------
(* server.py: client singleton and error formatting *)

\* A variant of get_client that constructs a client on every call.
get_client_always_new(cl, environ) ==
    LET r == WakaTimeClient_init(None, environ)
    IN  IF r.ok
        THEN [ok |-> TRUE, v |-> r.v, global |-> Some(r.v), built |-> 1]
        ELSE [ok |-> FALSE, type |-> r.type, msg |-> r.msg,
              global |-> cl, built |-> 0]

\* server.get_client against the global cl: what it returns or raises, the
\* new value of the global, and whether a client object was constructed.
get_client(cl, environ) ==
    IF IsNone(cl)
    THEN LET r == WakaTimeClient_init(None, environ)
         IN  IF r.ok
             THEN [ok |-> TRUE, v |-> r.v, global |-> Some(r.v), built |-> 1]
             ELSE [ok |-> FALSE, type |-> r.type, msg |-> r.msg,
                   global |-> cl, built |-> 0]
    ELSE [ok |-> TRUE, v |-> cl[1], global |-> cl, built |-> 0]

\* server.format_error
format_error(e) ==
    IF IsInstance(e.type, WakaTimeAuthError)
    THEN [error |-> "Authentication failed",
          message |-> e.msg,
          help |-> "Set WAKATIME_API_KEY environment variable with your API key "
                   \o "from https://wakatime.com/settings/api-key"]
    ELSE IF IsInstance(e.type, WakaTimeRateLimitError)
    THEN [error |-> "Rate limit exceeded",
          message |-> e.msg,
          help |-> "WakaTime allows ~10 requests/second. Wait a moment and try again."]
    ELSE IF IsInstance(e.type, WakaTimeNotReadyError)
    THEN [error |-> "Stats computing",
          message |-> e.msg,
          help |-> "WakaTime is still calculating your stats. "
                   \o "Try again in a few seconds."]
    ELSE [error |-> "API error", message |-> e.msg]

----------------------------------------------------------------------------
(* Arithmetic of round(x, 1) *)

\* n / d rounded to the nearest integer, ties to even (Python 3 round).
RoundDiv(n, d) ==
    LET q == n \div d
        r == n % d
    IN  IF 2 * r < d THEN q
        ELSE IF 2 * r > d THEN q + 1
        ELSE IF q % 2 = 0 THEN q ELSE q + 1

\* round(p, 1) of an upstream percent p given in hundredths.
round1(p) == 10 * RoundDiv(p, 10)

\* round((secs / total) * 100, 1), in hundredths of a percent.
round_share(secs, total) == 10 * RoundDiv(1000 * secs, total)


----------------------------------------------------------------------------
(* server.get_summary: multi-day aggregation (server.py:227-296) *)

ProjectLimit == 10
LanguageLimit == 10
EditorLimit == 5
CategoryLimit == 5

\* Index of `name` in the insertion-ordered totals, 0 when absent.
IndexOf(totals, name) ==
    IF \E i \in 1..Len(totals) : totals[i].name = name
    THEN CHOOSE i \in 1..Len(totals) : totals[i].name = name
    ELSE 0

\* A variant that stores the last day's seconds in place of adding them.
Accumulate_overwrite(totals, name, secs) ==
    LET i == IndexOf(totals, name)
    IN  IF i = 0
        THEN Append(totals, [name |-> name, secs |-> secs])
        ELSE [totals EXCEPT ![i].secs = secs]

\* totals[name] = totals.get(name, 0) + secs, keeping dict insertion order.
Accumulate(totals, name, secs) ==
    LET i == IndexOf(totals, name)
    IN  IF i = 0
        THEN Append(totals, [name |-> name, secs |-> secs])
        ELSE [totals EXCEPT ![i].secs = @ + secs]

\* One `for item in day_summary.get(field, [])` loop, from item k on.
RECURSIVE AddItems(_, _, _)
AddItems(totals, items, k) ==
    IF k > Len(items) THEN totals
    ELSE AddItems(Accumulate(totals,
                             Get(items[k], "name", "Unknown"),
                             Get(items[k], "total_seconds", 0)),
                  items, k + 1)

\* The `for day_summary in summaries` loop for one breakdown field, from day k on.
RECURSIVE AddDays(_, _, _, _)
AddDays(totals, summaries, field, k) ==
    IF k > Len(summaries) THEN totals
    ELSE AddDays(AddItems(totals, Get(summaries[k], field, <<>>), 1),
                 summaries, field, k + 1)

Totals(summaries, field) == AddDays(<<>>, summaries, field, 1)

\* total_seconds += grand_total.get("total_seconds", 0), from day k on.
RECURSIVE SumGrandTotals(_, _)
SumGrandTotals(summaries, k) ==
    IF k > Len(summaries) THEN 0
    ELSE Get(Get(summaries[k], "grand_total", EmptyDict), "total_seconds", 0)
         + SumGrandTotals(summaries, k + 1)

\* Insert x into a list sorted by secs descending, after every element that
\* is not smaller (a stable sort).
InsertDesc(sorted, x) ==
    LET n == Cardinality({i \in 1..Len(sorted) : sorted[i].secs >= x.secs})
    IN  SubSeq(sorted, 1, n) \o <<x>> \o SubSeq(sorted, n + 1, Len(sorted))

\* sorted(totals.items(), key=lambda x: x[1], reverse=True) of the first k items.
RECURSIVE SortDesc(_, _)
SortDesc(totals, k) ==
    IF k = 0 THEN <<>> ELSE InsertDesc(SortDesc(totals, k - 1), totals[k])

\* seq[:n]
Take(seq, n) == SubSeq(seq, 1, IF Len(seq) < n THEN Len(seq) ELSE n)

\* One item of format_breakdown's list comprehension.
BreakdownItem(t, total_seconds) ==
    [name |-> t.name,
     time |-> format_seconds(t.secs),
     percent |-> IF total_seconds > 0 THEN round_share(t.secs, total_seconds) ELSE 0,
     total_seconds |-> t.secs]

\* A variant that truncates before it sorts.
format_breakdown_truncate_first(totals, limit, total_seconds) ==
    LET sorted_items == SortDesc(Take(totals, limit), Len(Take(totals, limit)))
    IN  [i \in 1..Len(sorted_items) |-> BreakdownItem(sorted_items[i], total_seconds)]

\* get_summary.format_breakdown
format_breakdown(totals, limit, total_seconds) ==
    LET sorted_items == Take(SortDesc(totals, Len(totals)), limit)
    IN  [i \in 1..Len(sorted_items) |-> BreakdownItem(sorted_items[i], total_seconds)]

\* The is_range branch of get_summary.
AggregateRange(summaries, start, end) ==
    LET total_seconds == SumGrandTotals(summaries, 1)
        num_days == (end - start) + 1
    IN  [start_date |-> isoformat(start),
         end_date |-> isoformat(end),
         num_days |-> num_days,
         total_time |-> format_seconds(total_seconds),
         total_seconds |-> total_seconds,
         daily_average |-> IF num_days > 0
                           THEN format_seconds(total_seconds \div num_days)
                           ELSE "0 mins",
         projects |-> format_breakdown(Totals(summaries, "projects"),
                                       ProjectLimit, total_seconds),
         languages |-> format_breakdown(Totals(summaries, "languages"),
                                        LanguageLimit, total_seconds),
         editors |-> format_breakdown(Totals(summaries, "editors"),
                                      EditorLimit, total_seconds),
         categories |-> format_breakdown(Totals(summaries, "categories"),
                                         CategoryLimit, total_seconds)]

----------------------------------------------------------------------------
(* Reshaping of upstream breakdown lists (single-range paths) *)

\* {"name", "time", "percent", "total_seconds"} of one upstream item.
ItemFull(x) ==
    [name |-> Get(x, "name", NoneStr),
     time |-> Get(x, "text", ""),
     percent |-> round1(Get(x, "percent", 0)),
     total_seconds |-> Get(x, "total_seconds", 0)]

\* {"name", "time", "percent"} of one upstream item.
ItemBrief(x) ==
    [name |-> Get(x, "name", NoneStr),
     time |-> Get(x, "text", ""),
     percent |-> round1(Get(x, "percent", 0))]

\* [ItemFull(x) for x in items[:limit]]
TopFull(items, limit) ==
    [i \in 1..Len(Take(items, limit)) |-> ItemFull(items[i])]

\* [ItemBrief(x) for x in items[:limit]]
TopBrief(items, limit) ==
    [i \in 1..Len(Take(items, limit)) |-> ItemBrief(items[i])]

\* The single-day branch of get_summary (server.py:297-351).
SingleDay(summaries, start) ==
    LET summary == summaries[1]
        grand_total == Get(summary, "grand_total", EmptyDict)
    IN  [date |-> Get(Get(summary, "range", EmptyDict), "date", isoformat(start)),
         total_time |-> Get(grand_total, "text", "0 mins"),
         total_seconds |-> Get(grand_total, "total_seconds", 0),
         projects |-> TopFull(Get(summary, "projects", <<>>), ProjectLimit),
         languages |-> TopBrief(Get(summary, "languages", <<>>), LanguageLimit),
         editors |-> TopBrief(Get(summary, "editors", <<>>), EditorLimit),
         categories |-> TopBrief(Get(summary, "categories", <<>>), CategoryLimit)]

\* result[key] = value when cond (a conditional dict store).
WithIf(result, cond, key, value) ==
    IF cond THEN (key :> value) @@ result ELSE result

\* Python truthiness of a JSON value.
JTruthy(j) == CASE j.t = "list" -> Len(j.l) > 0
                [] j.t = "dict" -> DOMAIN j.d # {}
                [] OTHER -> FALSE

\* A variant that takes a range to be an answer with more than one summary.
SummaryResult_range_by_length(r, start, end, project) ==
    LET data == Unwrap(r, JList(<<>>))
    IN  IF ~data.ok THEN data
        ELSE IF ~JTruthy(data.v)
        THEN Ok([start_date |-> isoformat(start),
                 end_date |-> isoformat(end),
                 total_time |-> "0 mins",
                 total_seconds |-> 0,
                 message |-> "No coding activity recorded for this period."])
        ELSE IF data.v.t # "list"
        THEN IF start # end
             THEN Raise("AttributeError", "'str' object has no attribute 'get'")
             ELSE Raise("KeyError", "0")
        ELSE Ok(WithIf(IF Len(data.v.l) > 1
                       THEN AggregateRange(data.v.l, start, end)
                       ELSE SingleDay(data.v.l, start),
                       Truthy(project), "project_filter",
                       IF Truthy(project) THEN project[1] ELSE ""))


\* A variant that formats the zero total with format_seconds.
SummaryResult_zero_formatted(r, start, end, project) ==
    LET data == Unwrap(r, JList(<<>>))
    IN  IF ~data.ok THEN data
        ELSE IF ~JTruthy(data.v)
        THEN Ok([start_date |-> isoformat(start),
                 end_date |-> isoformat(end),
                 total_time |-> format_seconds(0),
                 total_seconds |-> 0,
                 message |-> "No coding activity recorded for this period."])
        ELSE IF data.v.t # "list"
        THEN IF start # end
             THEN Raise("AttributeError", "'str' object has no attribute 'get'")
             ELSE Raise("KeyError", "0")
        ELSE Ok(WithIf(IF start # end
                       THEN AggregateRange(data.v.l, start, end)
                       ELSE SingleDay(data.v.l, start),
                       Truthy(project), "project_filter",
                       IF Truthy(project) THEN project[1] ELSE ""))


\* get_summary from the return of client.get_summaries on (server.py:211-356):
\* the mapping returned or the exception raised.
SummaryResult(r, start, end, project) ==
    LET data == Unwrap(r, JList(<<>>))
    IN  IF ~data.ok THEN data
        ELSE IF ~JTruthy(data.v)
        THEN Ok([start_date |-> isoformat(start),
                 end_date |-> isoformat(end),
                 total_time |-> "0 mins",
                 total_seconds |-> 0,
                 message |-> "No coding activity recorded for this period."])
        ELSE IF data.v.t # "list"
        THEN IF start # end
             THEN Raise("AttributeError", "'str' object has no attribute 'get'")
             ELSE Raise("KeyError", "0")
        ELSE Ok(WithIf(IF start # end
                       THEN AggregateRange(data.v.l, start, end)
                       ELSE SingleDay(data.v.l, start),
                       Truthy(project), "project_filter",
                       IF Truthy(project) THEN project[1] ELSE ""))


----------------------------------------------------------------------------
(* server.py: the other four tools, from the client call's return on *)

OsLimit == 5
ProjectListLimit == 50

\* get_coding_stats (server.py:81-159)
CodingStatsResult(r, range) ==
    LET data == Unwrap(r, JDict(EmptyDict))
    IN  IF ~data.ok THEN data
        ELSE IF data.v.t # "dict" THEN NoGet(data.v)
        ELSE LET stats == data.v.d
                 best_day == Get(stats, "best_day", EmptyDict)
                 base == [range |-> Get(stats, "human_readable_range", range),
                          total_time |-> Get(stats, "human_readable_total", "0 mins"),
                          total_seconds |-> Get(stats, "total_seconds", 0),
                          daily_average |->
                              Get(stats, "human_readable_daily_average", "0 mins"),
                          days_including_holidays |->
                              Get(stats, "days_including_holidays", 0),
                          days_minus_holidays |-> Get(stats, "days_minus_holidays", 0),
                          languages |-> TopFull(Get(stats, "languages", <<>>),
                                                LanguageLimit),
                          projects |-> TopFull(Get(stats, "projects", <<>>),
                                               ProjectLimit),
                          editors |-> TopBrief(Get(stats, "editors", <<>>), EditorLimit),
                          operating_systems |->
                              TopBrief(Get(stats, "operating_systems", <<>>), OsLimit),
                          categories |-> TopBrief(Get(stats, "categories", <<>>),
                                                  CategoryLimit)]
             IN  Ok(WithIf(base, DOMAIN best_day # {}, "best_day",
                           [date |-> Get(best_day, "date", NoneStr),
                            time |-> Get(best_day, "text", ""),
                            total_seconds |-> Get(best_day, "total_seconds", 0)]))

\* get_all_time (server.py:377-403)
AllTimeResult(r, project) ==
    LET data == Unwrap(r, JDict(EmptyDict))
    IN  IF ~data.ok THEN data
        ELSE IF data.v.t # "dict" THEN NoGet(data.v)
        ELSE LET d == data.v.d
                 range_info == Get(d, "range", EmptyDict)
                 base == [total_time |-> Get(d, "text", "0 mins"),
                          total_seconds |-> Get(d, "total_seconds", 0),
                          daily_average_seconds |-> Get(d, "daily_average", 0),
                          is_up_to_date |-> Get(d, "is_up_to_date", FALSE),
                          daily_average |-> format_seconds(Get(d, "daily_average", 0))]
                 ranged == WithIf(base, DOMAIN range_info # {}, "range",
                                  [start |-> Get(range_info, "start_text", ""),
                                   end |-> Get(range_info, "end_text", ""),
                                   start_date |-> Get(range_info, "start_date", NoneStr),
                                   end_date |-> Get(range_info, "end_date", NoneStr)])
             IN  Ok(WithIf(ranged, Truthy(project), "project",
                           IF Truthy(project) THEN project[1] ELSE ""))

\* get_status_bar (server.py:421-443)
StatusBarResult(r) ==
    LET data == Unwrap(r, JDict(EmptyDict))
    IN  IF ~data.ok THEN data
        ELSE IF data.v.t # "dict" THEN NoGet(data.v)
        ELSE LET d == data.v.d
                 grand_total == Get(d, "grand_total", EmptyDict)
                 categories == Get(d, "categories", <<>>)
             IN  Ok(WithIf([today_total |-> Get(grand_total, "text", "0 mins"),
                            today_total_seconds |-> Get(grand_total, "total_seconds", 0),
                            is_cached |-> "cached_at" \in DOMAIN d],
                           Len(categories) > 0, "categories",
                           TopBrief(categories, CategoryLimit)))

\* One entry of list_projects' list comprehension.
ProjectEntry(x) ==
    [name |-> Get(x, "name", NoneStr),
     id |-> Get(x, "id", NoneStr),
     last_heartbeat_at |-> Get(x, "last_heartbeat_at", NoneStr),
     created_at |-> Get(x, "created_at", NoneStr),
     has_public_url |-> Get(x, "has_public_url", FALSE)]

\* list_projects (server.py:464-483)
ListProjectsResult(r, query) ==
    LET data == Unwrap(r, JList(<<>>))
    IN  IF ~data.ok THEN data
        ELSE IF data.v.t = "null"
        THEN Raise("TypeError", "object of type 'NoneType' has no len()")
        ELSE IF data.v.t = "dict"
        THEN Raise("TypeError", "unhashable type: 'slice'")
        ELSE LET projects == data.v.l
             IN  Ok(WithIf([total_count |-> Len(projects),
                            projects |-> [i \in 1..Len(Take(projects, ProjectListLimit))
                                          |-> ProjectEntry(projects[i])]],
                           Truthy(query), "query",
                           IF Truthy(query) THEN query[1] ELSE ""))

----------------------------------------------------------------------------
(* The upstream: what the WakaTime API may answer *)

\* 0 stands for a transport failure (httpx raises instead of returning).
Statuses == {0, 200, 202, 302, 401, 404, 429, 500}

Body(text, json) == [text |-> text, json |-> json]
NoBody == Body("", JInvalid)

\* Bodies any endpoint may answer with, whatever the status.
CommonBodies ==
    { Body("<html>502 Bad Gateway</html>", JInvalid),
      Body("null", JNull),
      Body("[]", JList(<<>>)),
      Body("{}", JDict(EmptyDict)),
      Body("{\"error\": \"Not found\"}", JDict([error |-> "Not found"])),
      Body("{\"data\": null}", JDict([data |-> JNull])),
      Body("{\"data\": []}", JDict([data |-> JList(<<>>)])),
      Body("{\"data\": {}}", JDict([data |-> JDict(EmptyDict)])),
      Body("{\"data\": {\"percent_calculated\": 42}}",
           JDict([data |-> JDict([percent_calculated |-> 42])])) }

NameOf(n) == "name" \o ToString(n)

\* The human-readable duration the upstream sends beside a number of seconds.
UpText(s) == ToString(s \div 60) \o " min"

\* An upstream breakdown item; percent is the share of the day's total, cut
\* to two decimals.
UpItem(n, s, tot) ==
    [name |-> NameOf(n), total_seconds |-> s, text |-> UpText(s),
     percent |-> IF tot > 0 THEN (10000 * s) \div tot ELSE 0]

\* Seconds of the i-th item of a day of shape sh, and their sum.
ShapeSecs(sh, i) == sh.b + sh.a * i
ShapeSum(sh) == sh.k * sh.b + sh.a * ((sh.k * (sh.k + 1)) \div 2)

\* The breakdown list of a day of shape sh, its names rotated by shift.
UpList(sh, shift) ==
    [i \in 1..sh.k |-> UpItem(((i - 1 + sh.off + shift) % MaxNames) + 1,
                              ShapeSecs(sh, i), ShapeSum(sh))]

\* A daily summary as the summaries endpoint sends it.
DaySummary(sh) ==
    [grand_total |-> [total_seconds |-> ShapeSum(sh), text |-> UpText(ShapeSum(sh))],
     range |-> [date |-> isoformat(sh.day)],
     projects |-> UpList(sh, 0),
     languages |-> UpList(sh, 1),
     editors |-> UpList(sh, 2),
     categories |-> UpList(sh, 3)]

\* k items named off+1.., the i-th lasting b + a*i seconds.
DayShapes ==
    { [k |-> 0, off |-> 0, a |-> 0, b |-> 0, day |-> 1],
      [k |-> 1, off |-> 0, a |-> 0, b |-> 3600, day |-> 1],
      [k |-> 1, off |-> 0, a |-> 0, b |-> 1800, day |-> 2],
      [k |-> 2, off |-> 0, a |-> 0, b |-> 0, day |-> 2],
      [k |-> 2, off |-> 0, a |-> 14, b |-> -13, day |-> 1],
      [k |-> 6, off |-> 0, a |-> 0, b |-> 7, day |-> 2],
      [k |-> MaxNames, off |-> 0, a |-> 1, b |-> 0, day |-> 1],
      [k |-> MaxNames, off |-> 3, a |-> -1, b |-> 20, day |-> 2] }

\* A daily summary with fields missing.
SparseDay ==
    [projects |-> << [total_seconds |-> 5],
                     [name |-> NameOf(1)],
                     [name |-> NameOf(1), total_seconds |-> 3, percent |-> 3755] >>,
     languages |-> << [name |-> NameOf(2), total_seconds |-> 90, percent |-> 4567] >>]

DaySummaries == {DaySummary(sh) : sh \in DayShapes} \cup {SparseDay}

RECURSIVE SeqsUpTo(_, _)
SeqsUpTo(S, n) ==
    IF n = 0 THEN {<<>>}
    ELSE LET shorter == SeqsUpTo(S, n - 1)
         IN  shorter \cup {Append(q, x) : q \in shorter, x \in S}

SummariesBodies ==
    {Body("{\"data\": [...]}", JDict([data |-> JList(l)])) :
        l \in SeqsUpTo(DaySummaries, MaxSummaries)}

StatsPayloads ==
    { [human_readable_range |-> "last 7 days",
       human_readable_total |-> "11 hrs 5 mins",
       total_seconds |-> 39900,
       human_readable_daily_average |-> "1 hr 35 mins",
       days_including_holidays |-> 7,
       days_minus_holidays |-> 6,
       best_day |-> [date |-> isoformat(1), text |-> "3 hrs", total_seconds |-> 10800],
       languages |-> UpList([k |-> MaxNames, off |-> 0, a |-> 1, b |-> 0], 1),
       projects |-> UpList([k |-> 2, off |-> 0, a |-> 14, b |-> -13], 0),
       editors |-> UpList([k |-> 6, off |-> 0, a |-> 0, b |-> 7], 2),
       operating_systems |-> UpList([k |-> 1, off |-> 0, a |-> 0, b |-> 3600], 4),
       categories |-> UpList([k |-> 6, off |-> 3, a |-> -1, b |-> 20], 3)],
      [total_seconds |-> 0, languages |-> <<>>] }

AllTimePayloads ==
    { [text |-> "1,234 hrs 5 mins", total_seconds |-> 4442700, daily_average |-> 9000,
       is_up_to_date |-> TRUE,
       range |-> [start_text |-> "Jan 1st 2024", end_text |-> "Today",
                  start_date |-> isoformat(1), end_date |-> isoformat(Today)]],
      [text |-> "5 mins", total_seconds |-> 300, is_up_to_date |-> FALSE] }

StatusBarPayloads ==
    { [grand_total |-> [text |-> "2 hrs 1 min", total_seconds |-> 7260],
       categories |-> UpList([k |-> 6, off |-> 0, a |-> 1, b |-> 0], 0),
       cached_at |-> "2024-01-02T10:00:00Z"],
      [grand_total |-> [text |-> "0 secs", total_seconds |-> 0], categories |-> <<>>] }

ProjectsPayloads ==
    { << [name |-> "wakatime-mcp", id |-> "p1",
          last_heartbeat_at |-> "2024-01-02T10:00:00Z",
          created_at |-> "2023-12-01T08:00:00Z", has_public_url |-> TRUE],
         [name |-> "dotfiles", id |-> "p2"] >> }

DataBodies(payloads) == {Body("{\"data\": {...}}", JDict([data |-> JDict(x)])) : x \in payloads}

\* The bodies the upstream may send in answer to a tool's request.
Bodies(tool) ==
    CommonBodies \cup
    CASE tool = "get_coding_stats" -> DataBodies(StatsPayloads)
      [] tool = "get_summary" -> SummariesBodies
      [] tool = "get_all_time" -> DataBodies(AllTimePayloads)
      [] tool = "get_status_bar" -> DataBodies(StatusBarPayloads)
      [] tool = "list_projects" ->
            {Body("{\"data\": [...]}", JDict([data |-> JList(x)])) : x \in ProjectsPayloads}

\* What `await client.request(...)` may resume with.
Responses(tool) ==
    {[status_code |-> 0, body |-> NoBody]} \cup
    {[status_code |-> st, body |-> b] : st \in Statuses \ {0}, b \in Bodies(tool)}


----------------------------------------------------------------------------
(* The callers: arguments a tool may be invoked with *)

StatsRange == {"last_7_days", "last_30_days", "last_6_months", "last_year", "all_time"}

DateArgs == {None, Some("yesterday")} \cup {Some(isoformat(d)) : d \in 1..MaxDay}
ProjectArgs == {None, Some("wakatime-mcp")}
QueryArgs == {None, Some(""), Some("mcp")}

Args(range, start_date, end_date, project, query) ==
    [range |-> range, start_date |-> start_date, end_date |-> end_date,
     project |-> project, query |-> query]

NoArgs == Args("", None, None, None, None)
NoResponse == [status_code |-> -1, body |-> NoBody]

\* An invocation slot with no call in it.
Idle ==
    [pc |-> "idle", tool |-> "", args |-> NoArgs, start |-> 0, end |-> 0,
     got_client |-> FALSE, sent |-> 0, request |-> EmptyDict,
     response |-> NoResponse, result |-> EmptyDict]

----------------------------------------------------------------------------
(* wakatime_client.py: the endpoint methods, up to the request they send *)

Request(endpoint, params) == [method |-> "GET", endpoint |-> endpoint, params |-> params]

\* WakaTimeClient.get_stats
get_stats(range) == Request("/users/current/stats/" \o range, EmptyDict)

\* WakaTimeClient.get_summaries
get_summaries(start, end, project) ==
    Request("/users/current/summaries",
            WithIf([start |-> get_date_string(start), end |-> get_date_string(end)],
                   Truthy(project), "project",
                   IF Truthy(project) THEN project[1] ELSE ""))

\* WakaTimeClient.get_all_time_since_today
get_all_time_since_today(project) ==
    Request("/users/current/all_time_since_today",
            WithIf(EmptyDict, Truthy(project), "project",
                   IF Truthy(project) THEN project[1] ELSE ""))

\* WakaTimeClient.get_status_bar
client_get_status_bar == Request("/users/current/status_bar/today", EmptyDict)

\* WakaTimeClient.get_projects
get_projects(query) ==
    Request("/users/current/projects",
            WithIf(EmptyDict, Truthy(query), "q", IF Truthy(query) THEN query[1] ELSE ""))

----------------------------------------------------------------------------
(* server.py: the tools.  An invocation runs from its call to its only     *)
(* await (the HTTP request) in one step, and from the response to its      *)
(* return in another.                                                      *)

\* The invocation in slot p returns `result` before sending anything.
ReturnEarly(p, tool, args, start, end, result) ==
    /\ inv' = [inv EXCEPT ![p] =
                 [Idle EXCEPT !.pc = "done", !.tool = tool, !.args = args,
                              !.start = start, !.end = end,
                              !.got_client = TRUE, !.result = result]]
    /\ UNCHANGED requests

\* The invocation in slot p sends `request` and suspends.
Send(p, tool, args, start, end, request) ==
    /\ requests < MaxRequests
    /\ requests' = requests + 1
    /\ inv' = [inv EXCEPT ![p] =
                 [Idle EXCEPT !.pc = "awaiting", !.tool = tool, !.args = args,
                              !.start = start, !.end = end, !.got_client = TRUE,
                              !.sent = 1, !.request = request]]

\* Exceptions that derive from BaseException only, which `except Exception`
\* lets through.
BaseOnly == {"CancelledError", "KeyboardInterrupt", "SystemExit", "GeneratorExit"}

\* A variant that handles only the client's own exception classes.
Catch_WakaTimeError_only(outcome) ==
    IF outcome.ok THEN [pc |-> "done", result |-> outcome.v]
    ELSE IF IsInstance(outcome.type, WakaTimeError)
    THEN [pc |-> "done", result |-> format_error(outcome)]
    ELSE [pc |-> "raised", result |-> EmptyDict]

\* `try: ... return result` / `except Exception as e: return format_error(e)`
\* around a tool's body: how the invocation ends, given what the body did.
Catch(outcome) ==
    IF outcome.ok THEN [pc |-> "done", result |-> outcome.v]
    ELSE IF outcome.type \notin BaseOnly
    THEN [pc |-> "done", result |-> format_error(outcome)]
    ELSE [pc |-> "raised", result |-> EmptyDict]

\* `client = get_client()` inside the tool's try block; when it returns, the
\* tool goes on with `rest`.
Enter(p, tool, args, gc, rest) ==
    /\ p \in procs
    /\ inv[p].pc = "idle"
    /\ _client' = gc.global
    /\ constructed' = constructed + gc.built
    /\ IF gc.ok THEN rest
       ELSE /\ inv' = [inv EXCEPT ![p] =
                         [Idle EXCEPT !.pc = Catch(gc).pc, !.tool = tool, !.args = args,
                                      !.result = Catch(gc).result]]
            /\ UNCHANGED requests
    /\ UNCHANGED <<env_key, procs, seconds, formatted>>

\* A variant that sends the request again when the upstream answers 429.
Resume_retry_on_429(p, tool, response, outcome) ==
    /\ p \in procs
    /\ inv[p].pc = "awaiting"
    /\ inv[p].tool = tool
    /\ IF response.status_code = 429 /\ requests < MaxRequests
       THEN /\ requests' = requests + 1
            /\ inv' = [inv EXCEPT ![p].sent = @ + 1]
       ELSE /\ inv' = [inv EXCEPT ![p].pc = Catch(outcome).pc,
                                  ![p].response = response,
                                  ![p].result = Catch(outcome).result]
            /\ UNCHANGED requests
    /\ UNCHANGED <<env_key, _client, constructed, procs, seconds, formatted>>

\* The invocation in slot p resumes with the response and ends.
Resume(p, tool, response, outcome) ==
    /\ p \in procs
    /\ inv[p].pc = "awaiting"
    /\ inv[p].tool = tool
    /\ inv' = [inv EXCEPT ![p].pc = Catch(outcome).pc,
                          ![p].response = response,
                          ![p].result = Catch(outcome).result]
    /\ UNCHANGED <<env_key, _client, constructed, requests, procs, seconds, formatted>>

get_coding_stats_call(p, range) ==
    LET gc == get_client(_client, env_key)
        args == Args(range, None, None, None, None)
    IN  Enter(p, "get_coding_stats", args, gc,
              Send(p, "get_coding_stats", args, 0, 0, get_stats(range)))

get_coding_stats_resume(p, response) ==
    Resume(p, "get_coding_stats", response,
           CodingStatsResult(_request(response), inv[p].args.range))

\* get_summary up to `await client.get_summaries(...)` (server.py:194-211).
get_summary_call(p, start_date, end_date, project) ==
    LET gc == get_client(_client, env_key)
        args == Args("", start_date, end_date, project, None)
        today == Today
        yesterday == today - 1
        start == OrElse(parse_date(start_date), yesterday)
        end == OrElse(parse_date(end_date), today)
    IN  Enter(p, "get_summary", args, gc,
              IF end < start
              THEN ReturnEarly(p, "get_summary", args, start, end,
                               [error |-> "Invalid date range",
                                message |-> "end_date cannot be before start_date"])
              ELSE Send(p, "get_summary", args, start, end,
                        get_summaries(start, end, project)))

get_summary_resume(p, response) ==
    Resume(p, "get_summary", response,
           SummaryResult(_request(response), inv[p].start, inv[p].end,
                         inv[p].args.project))

get_all_time_call(p, project) ==
    LET gc == get_client(_client, env_key)
        args == Args("", None, None, project, None)
    IN  Enter(p, "get_all_time", args, gc,
              Send(p, "get_all_time", args, 0, 0, get_all_time_since_today(project)))

get_all_time_resume(p, response) ==
    Resume(p, "get_all_time", response,
           AllTimeResult(_request(response), inv[p].args.project))

get_status_bar_call(p) ==
    LET gc == get_client(_client, env_key)
    IN  Enter(p, "get_status_bar", NoArgs, gc,
              Send(p, "get_status_bar", NoArgs, 0, 0, client_get_status_bar))

get_status_bar_resume(p, response) ==
    Resume(p, "get_status_bar", response, StatusBarResult(_request(response)))

list_projects_call(p, query) ==
    LET gc == get_client(_client, env_key)
        args == Args("", None, None, None, query)
    IN  Enter(p, "list_projects", args, gc,
              Send(p, "list_projects", args, 0, 0, get_projects(query)))

list_projects_resume(p, response) ==
    Resume(p, "list_projects", response,
           ListProjectsResult(_request(response), inv[p].args.query))

\* The framework hands the returned mapping (or the exception) to the caller;
\* the slot is free.
Return(p) ==
    /\ p \in procs
    /\ inv[p].pc \in {"done", "raised"}
    /\ inv' = [inv EXCEPT ![p] = Idle]
    /\ UNCHANGED <<env_key, _client, constructed, requests, procs, seconds, formatted>>

----------------------------------------------------------------------------
(* Specifications *)

Slots == {1}

\* The process after import: no client yet, nothing called.  The API key of
\* the environment is unset, empty or set.
Init ==
    /\ env_key \in {None, Some(""), Some("waka_0123456789abcdef")}
    /\ _client = None
    /\ constructed = 0
    /\ requests = 0
    /\ procs = Slots
    /\ inv = [p \in Slots |-> Idle]
    /\ seconds = 0
    /\ formatted = format_seconds(0)

Next ==
    \E p \in Slots :
        \/ \E range \in StatsRange : get_coding_stats_call(p, range)
        \/ \E r \in Responses("get_coding_stats") : get_coding_stats_resume(p, r)
        \/ \E sd \in DateArgs, ed \in DateArgs, pr \in ProjectArgs :
               get_summary_call(p, sd, ed, pr)
        \/ \E r \in Responses("get_summary") : get_summary_resume(p, r)
        \/ \E pr \in ProjectArgs : get_all_time_call(p, pr)
        \/ \E r \in Responses("get_all_time") : get_all_time_resume(p, r)
        \/ get_status_bar_call(p)
        \/ \E r \in Responses("get_status_bar") : get_status_bar_resume(p, r)
        \/ \E q \in QueryArgs : list_projects_call(p, q)
        \/ \E r \in Responses("list_projects") : list_projects_resume(p, r)
        \/ Return(p)

Spec == Init /\ [][Next]_vars

\* The unit harness of format_seconds: it is applied to 0, 1, 2, ...
FormatNext ==
    /\ seconds < MaxSeconds
    /\ seconds' = seconds + 1
    /\ formatted' = format_seconds(seconds + 1)
    /\ UNCHANGED <<env_key, _client, constructed, requests, inv, procs>>

InitFormat == Init /\ env_key = None

SpecFormat == InitFormat /\ [][FormatNext]_vars


\* Concurrent invocations.  The event loop runs a coroutine from one await to
\* the next without interleaving, so each action below is one atomic step of
\* one invocation; several invocations may be suspended at their request at
\* the same time and their responses arrive in any order.
ConcurrentSlots == 1..MaxSlots

\* The answers that matter to the life of the client: a transport failure, a
\* success and a rejected key.
ConcurrentResponses ==
    {[status_code |-> 0, body |-> NoBody]} \cup
    {[status_code |-> st, body |-> Body("{}", JDict(EmptyDict))] : st \in {200, 401}}

InitConcurrent ==
    /\ env_key \in {None, Some(""), Some("waka_0123456789abcdef")}
    /\ _client = None
    /\ constructed = 0
    /\ requests = 0
    /\ procs = ConcurrentSlots
    /\ inv = [p \in ConcurrentSlots |-> Idle]
    /\ seconds = 0
    /\ formatted = format_seconds(0)

NextConcurrent ==
    \E p \in ConcurrentSlots :
        \/ get_coding_stats_call(p, "last_7_days")
        \/ \E r \in ConcurrentResponses : get_coding_stats_resume(p, r)
        \/ \E sd \in {None, Some(isoformat(MaxDay))} : get_summary_call(p, sd, None, None)
        \/ \E r \in ConcurrentResponses : get_summary_resume(p, r)
        \/ get_all_time_call(p, None)
        \/ \E r \in ConcurrentResponses : get_all_time_resume(p, r)
        \/ get_status_bar_call(p)
        \/ \E r \in ConcurrentResponses : get_status_bar_resume(p, r)
        \/ list_projects_call(p, None)
        \/ \E r \in ConcurrentResponses : list_projects_resume(p, r)
        \/ Return(p)

SpecConcurrent == InitConcurrent /\ [][NextConcurrent]_vars

----------------------------------------------------------------------------
(* Vocabulary of the properties *)

Done(p) == inv[p].pc = "done"
\* The upstream answered the invocation in slot p with an HTTP status.
Answered(p) == inv[p].pc \in {"done", "raised"} /\ inv[p].response.status_code > 0
StatusOf(p) == inv[p].response.status_code
BodyOf(p) == inv[p].response.body
ResultOf(p) == inv[p].result

ErrorIs(res, e) == "error" \in DOMAIN res /\ res.error = e
HasHelp(res) == "help" \in DOMAIN res

\* The body is a JSON object without / with a "data" member of JSON type t.
DataAbsent(b) == b.json.t = "dict" /\ "data" \notin DOMAIN b.json.d
DataIs(b, t) == b.json.t = "dict" /\ "data" \in DOMAIN b.json.d /\ b.json.d.data.t = t

\* A 202 body the client can read the progress from.
NotReadyBody(b) == DataAbsent(b) \/ DataIs(b, "dict")

\* percent_calculated of a 202 body, 0 when it has none.
PercentOf(b) ==
    IF DataIs(b, "dict") /\ "percent_calculated" \in DOMAIN b.json.d.data.d
    THEN b.json.d.data.d.percent_calculated
    ELSE 0

\* A success body of the shape the tool reads: a JSON object whose "data" is
\* absent or of the type the tool expects (for get_summary also any empty value).
ExpectedShape(tool, b) ==
    \/ DataAbsent(b)
    \/ tool \in {"get_coding_stats", "get_all_time", "get_status_bar"} /\ DataIs(b, "dict")
    \/ tool \in {"list_projects", "get_summary"} /\ DataIs(b, "list")
    \/ tool = "get_summary" /\ DataIs(b, "null")
    \/ tool = "get_summary" /\ DataIs(b, "dict") /\ DOMAIN b.json.d.data.d = {}

NotReadyMessage(percent) ==
    "Stats are still being computed (" \o ToString(percent)
    \o "% complete). Try again in a few seconds."

----------------------------------------------------------------------------
(* C1 *)

\* C1 as stated: for every tool and every upstream status the result falls in
\* the class of the table (401 Authentication failed, 202 Stats computing,
\* 429 Rate limit exceeded, any other status >= 400 API error), and a 2xx
\* answer (other than the table's 202) never yields a mapping with "error".
C1_AsStated ==
    \A p \in procs : Answered(p) =>
        /\ Done(p)
        /\ StatusOf(p) = 401 => ErrorIs(ResultOf(p), "Authentication failed")
        /\ StatusOf(p) = 202 => ErrorIs(ResultOf(p), "Stats computing")
        /\ StatusOf(p) = 429 => ErrorIs(ResultOf(p), "Rate limit exceeded")
        /\ StatusOf(p) >= 400 /\ StatusOf(p) \notin {401, 429}
               => ErrorIs(ResultOf(p), "API error")
        /\ StatusOf(p) \in 200..299 /\ StatusOf(p) # 202
               => "error" \notin DOMAIN ResultOf(p)

\* C1 amended: every answer yields exactly one outcome, decided by the status
\* and, below 400, by whether the body can be read.  401, 429 and any other
\* status >= 400 give their advisory whatever the body; 202 gives Stats
\* computing when the body is a JSON object whose data is absent or an object,
\* else API error; any other status below 400 gives the success mapping (no
\* "error") when the body has the shape the tool reads, else API error.
C1_StatusMapping ==
    \A p \in procs : Answered(p) =>
        /\ Done(p)
        /\ StatusOf(p) = 401 => ErrorIs(ResultOf(p), "Authentication failed")
        /\ StatusOf(p) = 429 => ErrorIs(ResultOf(p), "Rate limit exceeded")
        /\ StatusOf(p) >= 400 /\ StatusOf(p) \notin {401, 429}
               => ErrorIs(ResultOf(p), "API error")
        /\ StatusOf(p) = 202 =>
               IF NotReadyBody(BodyOf(p))
               THEN ErrorIs(ResultOf(p), "Stats computing")
               ELSE ErrorIs(ResultOf(p), "API error")
        /\ StatusOf(p) < 400 /\ StatusOf(p) # 202 =>
               IF ExpectedShape(inv[p].tool, BodyOf(p))
               THEN "error" \notin DOMAIN ResultOf(p)
               ELSE ErrorIs(ResultOf(p), "API error")

\* A 200 answer whose body is not JSON ended as an API error advisory.
C1_Witness ==
    \E p \in procs :
        /\ Done(p) /\ StatusOf(p) = 200
        /\ BodyOf(p).json.t = "invalid"
        /\ ErrorIs(ResultOf(p), "API error")

----------------------------------------------------------------------------
(* C2 *)

\* C2 as stated: 401, 429 and 202 each give their own advisory with a help
\* field, the 202 message carrying the body's percent_calculated (0 when
\* absent), and any other status >= 400 gives API error without help, for
\* every body the upstream sends with that status.
C2_AsStated ==
    \A p \in procs : Answered(p) =>
        /\ StatusOf(p) = 401 =>
               ErrorIs(ResultOf(p), "Authentication failed") /\ HasHelp(ResultOf(p))
        /\ StatusOf(p) = 429 =>
               ErrorIs(ResultOf(p), "Rate limit exceeded") /\ HasHelp(ResultOf(p))
        /\ StatusOf(p) = 202 =>
               /\ ErrorIs(ResultOf(p), "Stats computing") /\ HasHelp(ResultOf(p))
               /\ ResultOf(p).message = NotReadyMessage(PercentOf(BodyOf(p)))
        /\ StatusOf(p) >= 400 /\ StatusOf(p) \notin {401, 429} =>
               ErrorIs(ResultOf(p), "API error") /\ ~HasHelp(ResultOf(p))

\* C2 amended: as stated for 401, 429 and the other statuses >= 400, for every
\* body.  A 202 gives Stats computing, with help and the body's
\* percent_calculated (0 when absent) in the message, when the body is a JSON
\* object whose data is absent or an object; a 202 with any other body gives
\* API error without help.
C2_TypedAdvisories ==
    \A p \in procs : Answered(p) =>
        /\ Done(p)
        /\ StatusOf(p) = 401 =>
               /\ ErrorIs(ResultOf(p), "Authentication failed") /\ HasHelp(ResultOf(p))
               /\ ResultOf(p).message = "Invalid API key"
        /\ StatusOf(p) = 429 =>
               ErrorIs(ResultOf(p), "Rate limit exceeded") /\ HasHelp(ResultOf(p))
        /\ StatusOf(p) = 202 /\ NotReadyBody(BodyOf(p)) =>
               /\ ErrorIs(ResultOf(p), "Stats computing") /\ HasHelp(ResultOf(p))
               /\ ResultOf(p).message = NotReadyMessage(PercentOf(BodyOf(p)))
        /\ StatusOf(p) = 202 /\ ~NotReadyBody(BodyOf(p)) =>
               ErrorIs(ResultOf(p), "API error") /\ ~HasHelp(ResultOf(p))
        /\ StatusOf(p) >= 400 /\ StatusOf(p) \notin {401, 429} =>
               ErrorIs(ResultOf(p), "API error") /\ ~HasHelp(ResultOf(p))

\* A 202 answer carrying percent_calculated = 42 ended as Stats computing
\* with 42 in the message.
C2_Witness ==
    \E p \in procs :
        /\ Done(p) /\ StatusOf(p) = 202
        /\ PercentOf(BodyOf(p)) = 42
        /\ ErrorIs(ResultOf(p), "Stats computing")
        /\ ResultOf(p).message = NotReadyMessage(42)

----------------------------------------------------------------------------
(* C3 *)

\* No API key is configured, so constructing the client fails.
NoKey == env_key = None \/ env_key = Some("")

\* The invocation in slot p ended after a failure: the client could not be
\* constructed, the transport failed, the upstream answered 202 or >= 400, or
\* the body could not be read.
Failed(p) ==
    /\ inv[p].pc \in {"done", "raised"}
    /\ \/ NoKey
       \/ /\ inv[p].sent > 0
          /\ \/ StatusOf(p) = 0
             \/ StatusOf(p) >= 400
             \/ StatusOf(p) = 202
             \/ ~ExpectedShape(inv[p].tool, BodyOf(p))

\* The failure is one of AuthError, RateLimitError, NotReadyError.
TypedFailure(p) ==
    \/ NoKey
    \/ StatusOf(p) \in {401, 429}
    \/ StatusOf(p) = 202 /\ NotReadyBody(BodyOf(p))

\* C3: no invocation lets a failure through to its caller: every invocation
\* that fails ends by returning a mapping with "error" and "message", and a
\* failure that is none of the three typed ones is reported as API error.
C3_NoFailurePropagates ==
    \A p \in procs :
        /\ inv[p].pc # "raised"
        /\ Failed(p) =>
               /\ {"error", "message"} \subseteq DOMAIN ResultOf(p)
               /\ ~TypedFailure(p) => ResultOf(p).error = "API error"

\* Each kind of failure the claim lists has ended an invocation with an
\* advisory: here a transport failure.
C3_Witness ==
    \E p \in procs :
        /\ Done(p) /\ inv[p].sent = 1 /\ StatusOf(p) = 0
        /\ ErrorIs(ResultOf(p), "API error")


----------------------------------------------------------------------------
(* Vocabulary of the get_summary properties *)

\* The date a start_date / end_date argument stands for: the day it names in
\* YYYY-MM-DD form, or dflt when it is absent or names none.
EffectiveDate(arg, dflt) ==
    IF \E d \in 1..31 : arg = Some(isoformat(d))
    THEN CHOOSE d \in 1..31 : arg = Some(isoformat(d))
    ELSE dflt

EffStart(p) == EffectiveDate(inv[p].args.start_date, Today - 1)
EffEnd(p) == EffectiveDate(inv[p].args.end_date, Today)

\* get_summary in slot p got a readable answer carrying a list of summaries.
SummaryAnswered(p) ==
    /\ Done(p) /\ inv[p].tool = "get_summary" /\ inv[p].sent = 1
    /\ StatusOf(p) > 0 /\ StatusOf(p) < 400 /\ StatusOf(p) # 202

DaysOf(p) == BodyOf(p).json.d.data.l

RangeCase(p) ==
    /\ SummaryAnswered(p) /\ EffStart(p) < EffEnd(p)
    /\ DataIs(BodyOf(p), "list") /\ Len(DaysOf(p)) > 0

SingleCase(p) ==
    /\ SummaryAnswered(p) /\ EffStart(p) = EffEnd(p)
    /\ DataIs(BodyOf(p), "list") /\ Len(DaysOf(p)) > 0

EmptyCase(p) ==
    /\ SummaryAnswered(p)
    /\ \/ DataAbsent(BodyOf(p))
       \/ DataIs(BodyOf(p), "list") /\ Len(DaysOf(p)) = 0

BreakdownFields == {"projects", "languages", "editors", "categories"}

LimitOf(f) == CASE f = "projects" -> 10
                [] f = "languages" -> 10
                [] f = "editors" -> 5
                [] f = "categories" -> 5

ItemsOf(day, f) == IF f \in DOMAIN day THEN day[f] ELSE <<>>
NameIn(x) == IF "name" \in DOMAIN x THEN x.name ELSE "Unknown"
SecsIn(x) == IF "total_seconds" \in DOMAIN x THEN x.total_seconds ELSE 0
PercentIn(x) == IF "percent" \in DOMAIN x THEN x.percent ELSE 0

\* The places <<day, position>> where `name` occurs in field f of the days.
Occurrences(days, f, name) ==
    UNION { { <<d, i>> : i \in {j \in 1..Len(ItemsOf(days[d], f)) :
                                    NameIn(ItemsOf(days[d], f)[j]) = name} } :
            d \in 1..Len(days) }

RECURSIVE SumAt(_, _, _)
SumAt(places, days, f) ==
    IF places = {} THEN 0
    ELSE LET x == CHOOSE y \in places : TRUE
         IN  SecsIn(ItemsOf(days[x[1]], f)[x[2]]) + SumAt(places \ {x}, days, f)

\* The seconds `name` accumulates in field f over all the days.
NameSeconds(days, f, name) == SumAt(Occurrences(days, f, name), days, f)

NamesOf(days, f) ==
    UNION { {NameIn(ItemsOf(days[d], f)[i]) : i \in 1..Len(ItemsOf(days[d], f))} :
            d \in 1..Len(days) }

RECURSIVE GrandSum(_, _)
GrandSum(days, D) ==
    IF D = {} THEN 0
    ELSE LET d == CHOOSE e \in D : TRUE
             g == IF "grand_total" \in DOMAIN days[d] THEN days[d].grand_total
                  ELSE EmptyDict
         IN  (IF "total_seconds" \in DOMAIN g THEN g.total_seconds ELSE 0)
             + GrandSum(days, D \ {d})

GrandTotal(days) == GrandSum(days, 1..Len(days))

Abs(x) == IF x < 0 THEN -x ELSE x
Min(a, b) == IF a < b THEN a ELSE b

\* P (hundredths of a percent) is exact (a fraction num/den, in hundredths)
\* rounded to one decimal: a multiple of 0.1 no further than 0.05 away.
RoundedToOneDecimal(P, num, den) ==
    P % 10 = 0 /\ Abs(P * den - num) <= 5 * den

----------------------------------------------------------------------------
(* C4 *)

\* C4 as stated: a get_summary call whose effective end date is before its
\* effective start date returns the validation advisory and sends nothing,
\* in every configuration, the one without an API key included.
C4_ValidationBeforeClient ==
    \A p \in procs :
        (/\ inv[p].pc # "idle" /\ inv[p].tool = "get_summary"
         /\ EffEnd(p) < EffStart(p))
        => /\ Done(p)
           /\ inv[p].sent = 0
           /\ ErrorIs(ResultOf(p), "Invalid date range")
           /\ DOMAIN ResultOf(p) = {"error", "message"}

----------------------------------------------------------------------------
(* C5 *)

\* C5: in a multi-day get_summary result, total_seconds is the sum of the
\* days' grand totals, each listed name's total_seconds is the sum of that
\* name's seconds over all days, and each percent is 100 * name_seconds /
\* total_seconds rounded to one decimal (0 when total_seconds is 0), whatever
\* percent the days carry.
C5_MultiDayAggregation ==
    \A p \in procs : RangeCase(p) =>
        LET days == DaysOf(p)
            res == ResultOf(p)
            total == GrandTotal(days)
        IN  /\ "error" \notin DOMAIN res
            /\ res.total_seconds = total
            /\ \A f \in BreakdownFields : \A i \in 1..Len(res[f]) :
                 LET it == res[f][i]
                     secs == NameSeconds(days, f, it.name)
                 IN  /\ it.name \in NamesOf(days, f)
                     /\ it.total_seconds = secs
                     /\ IF total > 0
                        THEN RoundedToOneDecimal(it.percent, 10000 * secs, total)
                        ELSE it.percent = 0

\* A name seen on two days is listed with the sum of its seconds and with a
\* percent that is no day's upstream percent.
C5_Witness ==
    \E p \in procs :
        /\ RangeCase(p)
        /\ \E i \in 1..Len(ResultOf(p).languages) :
             LET it == ResultOf(p).languages[i]
                 occ == Occurrences(DaysOf(p), "languages", it.name)
             IN  /\ Cardinality({x[1] : x \in occ}) = 2
                 /\ \A x \in occ :
                      LET up == DaysOf(p)[x[1]].languages[x[2]]
                      IN  /\ it.total_seconds > SecsIn(up)
                          /\ Abs(it.percent - PercentIn(up)) > 10

----------------------------------------------------------------------------
(* C6 *)

\* C6: in a multi-day get_summary result each of projects, languages, editors
\* and categories is ordered by accumulated seconds descending and holds the
\* first N names of that order (10, 10, 5, 5): at most N items, and no name
\* left out accumulates more seconds than a name kept.
C6_TopNDescending ==
    \A p \in procs : RangeCase(p) =>
        \A f \in BreakdownFields :
            LET days == DaysOf(p)
                list == ResultOf(p)[f]
                kept == {list[i].name : i \in 1..Len(list)}
            IN  /\ Len(list) <= LimitOf(f)
                /\ Len(list) = Min(LimitOf(f), Cardinality(NamesOf(days, f)))
                /\ Cardinality(kept) = Len(list)
                /\ kept \subseteq NamesOf(days, f)
                /\ \A i \in 1..Len(list) : \A j \in i..Len(list) :
                     NameSeconds(days, f, list[i].name)
                         >= NameSeconds(days, f, list[j].name)
                /\ \A n \in NamesOf(days, f) \ kept : \A m \in kept :
                     NameSeconds(days, f, n) <= NameSeconds(days, f, m)

\* More than five editors were seen, five are listed, and a name with fewer
\* seconds than every listed one was dropped although it came first upstream.
C6_Witness ==
    \E p \in procs :
        /\ RangeCase(p)
        /\ Cardinality(NamesOf(DaysOf(p), "editors")) > 5
        /\ Len(ResultOf(p).editors) = 5
        /\ LET first == NameIn(ItemsOf(DaysOf(p)[1], "editors")[1])
           IN  \A i \in 1..5 :
                 /\ ResultOf(p).editors[i].name # first
                 /\ ResultOf(p).editors[i].total_seconds
                        > NameSeconds(DaysOf(p), "editors", first)

----------------------------------------------------------------------------
(* C7 *)

\* What C7 says of everything but the percent: the result is the first
\* summary reshaped, item by item in upstream order, nothing summed, with no
\* num_days and no daily_average.
SingleDayShape(p) ==
    LET day == DaysOf(p)[1]
        res == ResultOf(p)
        g == IF "grand_total" \in DOMAIN day THEN day.grand_total ELSE EmptyDict
    IN  /\ "error" \notin DOMAIN res
        /\ "num_days" \notin DOMAIN res
        /\ "daily_average" \notin DOMAIN res
        /\ res.total_seconds = (IF "total_seconds" \in DOMAIN g THEN g.total_seconds ELSE 0)
        /\ \A f \in BreakdownFields :
             /\ Len(res[f]) = Min(LimitOf(f), Len(ItemsOf(day, f)))
             /\ \A i \in 1..Len(res[f]) :
                  /\ res[f][i].name = (IF "name" \in DOMAIN ItemsOf(day, f)[i]
                                       THEN ItemsOf(day, f)[i].name ELSE NoneStr)
                  /\ f = "projects" =>
                       res[f][i].total_seconds = SecsIn(ItemsOf(day, f)[i])

\* C7 as stated: a single-day get_summary bypasses aggregation and every
\* breakdown item's percent is that day's upstream percent unchanged.
C7_AsStated ==
    \A p \in procs : SingleCase(p) =>
        /\ SingleDayShape(p)
        /\ \A f \in BreakdownFields : \A i \in 1..Len(ResultOf(p)[f]) :
             ResultOf(p)[f][i].percent = PercentIn(ItemsOf(DaysOf(p)[1], f)[i])

\* C7 amended: a single-day get_summary bypasses aggregation (first summary
\* alone, upstream order, nothing summed, no num_days / daily_average) and
\* every breakdown item's percent is that day's upstream percent rounded to
\* one decimal (0 when the item has none).
C7_SingleDayBypass ==
    \A p \in procs : SingleCase(p) =>
        /\ SingleDayShape(p)
        /\ \A f \in BreakdownFields : \A i \in 1..Len(ResultOf(p)[f]) :
             RoundedToOneDecimal(ResultOf(p)[f][i].percent,
                                 PercentIn(ItemsOf(DaysOf(p)[1], f)[i]), 1)

\* A single-day result built from the first of two summaries, holding a
\* percent that differs from the upstream percent by the rounding.
C7_Witness ==
    \E p \in procs :
        /\ SingleCase(p) /\ Len(DaysOf(p)) = 2
        /\ \E i \in 1..Len(ResultOf(p).projects) :
             LET up == PercentIn(ItemsOf(DaysOf(p)[1], "projects")[i])
             IN  up % 10 # 0 /\ ResultOf(p).projects[i].percent # up

----------------------------------------------------------------------------
(* C8 *)

\* C8: when the summaries answer carries an empty or absent data list,
\* get_summary returns, for a single day and for a range alike, a mapping
\* with total_seconds 0, total_time "0 mins", the start and end date asked
\* for, an informational message, and no "error".
C8_EmptyActivity ==
    \A p \in procs : EmptyCase(p) =>
        LET res == ResultOf(p)
        IN  /\ "error" \notin DOMAIN res
            /\ {"start_date", "end_date", "total_time", "total_seconds", "message"}
                   \subseteq DOMAIN res
            /\ res.total_seconds = 0
            /\ res.total_time = "0 mins"
            /\ res.start_date = isoformat(EffStart(p))
            /\ res.end_date = isoformat(EffEnd(p))
            /\ res.message = "No coding activity recorded for this period."

\* A range whose answer has no data member ended with the zero result.
C8_Witness ==
    \E p \in procs :
        /\ EmptyCase(p) /\ DataAbsent(BodyOf(p))
        /\ EffStart(p) < EffEnd(p)
        /\ ResultOf(p).total_seconds = 0
        /\ "message" \in DOMAIN ResultOf(p)

----------------------------------------------------------------------------
(* C9 *)

\* The text C9 gives for n seconds, each unit by floor division.
ExpectedText(n) ==
    IF n < 60 THEN ToString(n) \o " secs"
    ELSE IF n < 3600 THEN ToString(n \div 60) \o " mins"
    ELSE IF n < 86400
    THEN LET H == n \div 3600
             M == (n \div 60) % 60
         IN  IF M = 0 THEN ToString(H) \o " hrs"
             ELSE ToString(H) \o " hrs " \o ToString(M) \o " mins"
    ELSE LET D == n \div 86400
             H == (n \div 3600) % 24
         IN  IF H = 0 THEN ToString(D) \o " days"
             ELSE ToString(D) \o " days " \o ToString(H) \o " hrs"

SecsTexts == {ToString(k) \o " secs" : k \in 0..59}
MinsTexts == {ToString(k) \o " mins" : k \in 1..59}
HrsTexts ==
    {ToString(h) \o " hrs" : h \in 1..23} \cup
    {ToString(h) \o " hrs " \o ToString(m) \o " mins" : h \in 1..23, m \in 1..59}

\* The unit category of a text: 0 secs, 1 mins, 2 hrs, 3 days.
UnitRank(text) ==
    IF text \in SecsTexts THEN 0
    ELSE IF text \in MinsTexts THEN 1
    ELSE IF text \in HrsTexts THEN 2
    ELSE 3

\* C9: for every integer n >= 0 format_seconds(n) is the text the floor
\* divisions give (secs below 60, mins below 3600, hrs with the minutes left
\* below 86400, days with the hours left from there on, a zero remainder
\* omitted), and the unit category never decreases as n grows.
C9_FormatSeconds ==
    /\ [](formatted = ExpectedText(seconds))
    /\ [][UnitRank(formatted') >= UnitRank(formatted)]_vars

\* format_seconds has been applied to 90000: one day and one hour.
C9_Witness == seconds = 90000 /\ formatted = "1 days 1 hrs"

----------------------------------------------------------------------------
(* C10 *)

\* C10: with no API key (none or an empty one passed, none in the
\* environment) constructing the client fails with AuthError, and in every
\* run without a key each invocation returns the Authentication failed
\* advisory, no client exists and no request is ever sent.
C10_NoKeyNoRequest ==
    NoKey =>
        /\ \A api_key \in {None, Some("")} :
             /\ ~WakaTimeClient_init(api_key, env_key).ok
             /\ WakaTimeClient_init(api_key, env_key).type = WakaTimeAuthError
        /\ requests = 0
        /\ _client = None
        /\ constructed = 0
        /\ \A p \in procs :
             /\ inv[p].pc \in {"idle", "done"}
             /\ inv[p].sent = 0
             /\ Done(p) => /\ ErrorIs(ResultOf(p), "Authentication failed")
                           /\ HasHelp(ResultOf(p))

\* With an empty key in the environment a get_summary call has ended with the
\* Authentication failed advisory.
C10_Witness ==
    /\ env_key = Some("")
    /\ \E p \in procs :
         /\ Done(p) /\ inv[p].tool = "get_summary"
         /\ ErrorIs(ResultOf(p), "Authentication failed")

----------------------------------------------------------------------------
(* C11 *)

\* What the client did with the response the invocation in slot p received:
\* the value _request returned or the exception it raised.
ClientOutcome(p) == _request(inv[p].response)

\* The upstream error message of a body, or failing that the body text.
DetailOf(b) ==
    IF b.json.t = "dict" /\ "error" \in DOMAIN b.json.d
    THEN b.json.d.error
    ELSE b.text

\* The text around the parts of a message.
Glue == {"", " ", ": ", "API error (", "): ", "API error: ", " (", ")"}

\* msg contains both a and b, in either order, between pieces of Glue.
Mentions(msg, a, b) ==
    \E x \in Glue, y \in Glue, z \in Glue :
        \/ msg = x \o a \o y \o b \o z
        \/ msg = x \o b \o y \o a \o z

\* C11: for every answer with a status >= 400 other than 401 and 429,
\* whatever its body, the client raises the generic WakaTimeError and the
\* message contains the status code and the upstream error message or, when
\* the body has none, the body text.
C11_GenericErrorForAnyBody ==
    \A p \in procs :
        Answered(p) /\ StatusOf(p) >= 400 /\ StatusOf(p) \notin {401, 429} =>
            /\ ~ClientOutcome(p).ok
            /\ ClientOutcome(p).type = WakaTimeError
            /\ Mentions(ClientOutcome(p).msg, ToString(StatusOf(p)), DetailOf(BodyOf(p)))

----------------------------------------------------------------------------
(* C12 *)

Ended(p) == inv[p].pc \in {"done", "raised"}

\* The call in slot p gets as far as the client's request: a key is
\* configured and, for get_summary, the range is not reversed.
ReachesRequest(p) ==
    /\ ~NoKey
    /\ ~(inv[p].tool = "get_summary" /\ EffEnd(p) < EffStart(p))

\* C12 as stated: every execution of a tool sends exactly one request.
C12_AsStated ==
    \A p \in procs : Ended(p) => inv[p].sent = 1

\* C12 amended: no invocation ever sends more than one request, whatever the
\* tool, the range and the upstream's answer; an invocation that reaches the
\* client's request sends exactly one, and one that ends before it (no API
\* key, reversed date range) sends none.  Step by step: the requests sent grow
\* by one exactly when an idle slot's call suspends at its request, a
\* suspended invocation only ends, and an ended one sends nothing more.
C12_SingleRoundTrip ==
    /\ [](\A p \in procs :
            /\ inv[p].sent \in {0, 1}
            /\ inv[p].pc = "awaiting" => inv[p].sent = 1
            /\ Ended(p) => inv[p].sent = IF ReachesRequest(p) THEN 1 ELSE 0)
    /\ [][/\ requests' = requests
                 + Cardinality({p \in procs : inv[p].pc = "idle"
                                               /\ inv'[p].pc = "awaiting"})
          /\ \A p \in procs :
               /\ inv[p].pc = "awaiting" =>
                     /\ inv'[p].pc \in {"awaiting", "done", "raised"}
                     /\ inv'[p].sent = inv[p].sent
               /\ Ended(p) => inv'[p] = inv[p] \/ inv'[p] = Idle]_vars

\* get_summary over a multi-day range, answered with an error status, has
\* ended having sent one request.
C12_Witness ==
    \E p \in procs :
        /\ Done(p) /\ inv[p].tool = "get_summary"
        /\ EffStart(p) < EffEnd(p)
        /\ StatusOf(p) = 500
        /\ inv[p].sent = 1 /\ requests = 1

----------------------------------------------------------------------------
(* C13 *)

\* The invocation in slot p holds the client get_client returned to it.
HoldsClient(p) == inv[p].pc # "idle" /\ inv[p].got_client

\* C13: under any interleaving of concurrent invocations at most one client
\* is ever constructed; an invocation that holds a client holds the one the
\* global refers to, which is the object built from the environment's key;
\* and once _client is set no step constructs another client or changes
\* _client.  Without a key no client is ever constructed.
C13_ClientSingleton ==
    /\ [](/\ constructed <= 1
          /\ (_client # None) <=> (constructed = 1)
          /\ _client # None => _client = Some(WakaTimeClient_init(None, env_key).v)
          /\ \A p \in procs : HoldsClient(p) => _client # None)
    /\ [][_client # None => _client' = _client /\ constructed' = constructed]_vars

\* Two invocations are suspended at their requests at the same time, both
\* holding the only client constructed.
C13_Witness ==
    /\ constructed = 1
    /\ \E p \in procs, q \in procs :
         /\ p # q
         /\ inv[p].pc = "awaiting" /\ HoldsClient(p)
         /\ inv[q].pc = "awaiting" /\ HoldsClient(q)

=============================================================================
